---- MODULE Spec2Model ----
(***************************************************************************)
(* Tower of Hanoi visualization (src/src/App.svelte): the move planner     *)
(* calculateMoves and the playback state of the component (rods, moves,    *)
(* currentMoveIndex, isPlaying, speed, intervalId, startTime), driven by   *)
(* the DOM event handlers and by the callback of window.setInterval.       *)
(*                                                                         *)
(* The component's script variables are the variables of the module.  The  *)
(* handlers are operators from a state record to a state record, so that   *)
(* a handler can be applied to a state outside a step (stepBackward after  *)
(* stepForward); every action applies one handler to the current state.    *)
(*                                                                         *)
(* Environment (the browser):                                              *)
(*   timers       the interval timers that are registered (setInterval     *)
(*                adds one, clearInterval removes it; the callback of a    *)
(*                timer runs only while the timer is registered)           *)
(*   nextTimerId  the id the next setInterval returns (ids are positive    *)
(*                and never reused)                                        *)
(*   sliderCommitted  the value of the range input at its last change      *)
(*                event (a change event fires only when the value the      *)
(*                user commits differs from it)                            *)
(*   phase        constructed -> mounted -> destroyed                      *)
(*   lastOp       the handler that ran last                                *)
(*   planArgs     the arguments of calculateMoves in the planner's own     *)
(*                specification, <<>> in the component's                   *)
(***************************************************************************)
EXTENDS Integers, Sequences, FiniteSets, TLC

VARIABLES disks, rods, moves, currentMoveIndex, isPlaying, speed, totalMoves,
          intervalId, startTime, timers, nextTimerId, sliderCommitted, phase,
          lastOp, planArgs

vars == <<disks, rods, moves, currentMoveIndex, isPlaying, speed, totalMoves,
          intervalId, startTime, timers, nextTimerId, sliderCommitted, phase,
          lastOp, planArgs>>

(***************************************************************************)
(* Bounds of the model.                                                    *)
(***************************************************************************)
\* largest disk count the slider is moved to (the slider itself goes to 10)
MaxDisks == 4
\* largest n of calculateMoves in the planner's specification
MaxPlanN == 12
\* ids that setInterval hands out in one behaviour
MaxTimerId == 3
\* values Date.now() returns are 1..MaxTimestamp
MaxTimestamp == 2

(***************************************************************************)
(* Program constants.                                                      *)
(***************************************************************************)
\* null; intervalId and startTime are tested for truthiness only, and the
\* ids of setInterval and the values of Date.now() are positive
Null == 0
InitialDisks == 3
InitialSpeed == 1000
SliderMin == 3
SliderMax == 10
speedOptions == {2000, 1000, 500, 200}
RodIndices == {0, 1, 2}

(***************************************************************************)
(* JavaScript truthiness of a number | null.                               *)
(***************************************************************************)
Truthy(x) == x # Null /\ x # 0

(***************************************************************************)
(* calculateMoves: the recursion of the source.  n === 1 is its only base  *)
(* case, so that for n < 1 the recursion never reaches it and ends in the  *)
(* engine's RangeError (stack overflow), modelled by the value RangeError, *)
(* which no sequence of moves between rods equals.                         *)
(***************************************************************************)
RangeError == << [from |-> -1, to |-> -1] >>

\* calculateMoves with the recursive calls on the caller's own rods
RECURSIVE calculateMovesNoSwap(_, _, _, _)
calculateMovesNoSwap(n, source, target, auxiliary) ==
  IF n = 1 THEN << [from |-> source, to |-> target] >>
  ELSE IF n < 1 THEN RangeError
  ELSE calculateMovesNoSwap(n - 1, source, target, auxiliary)
       \o << [from |-> source, to |-> target] >>
       \o calculateMovesNoSwap(n - 1, source, target, auxiliary)

\* calculateMoves without the move of the largest disk
RECURSIVE calculateMovesNoMiddle(_, _, _, _)
calculateMovesNoMiddle(n, source, target, auxiliary) ==
  IF n = 1 THEN << [from |-> source, to |-> target] >>
  ELSE IF n < 1 THEN RangeError
  ELSE calculateMovesNoMiddle(n - 1, source, auxiliary, target)
       \o calculateMovesNoMiddle(n - 1, auxiliary, target, source)

\* calculateMoves with the two recursive calls in the other order
RECURSIVE calculateMovesReversed(_, _, _, _)
calculateMovesReversed(n, source, target, auxiliary) ==
  IF n = 1 THEN << [from |-> source, to |-> target] >>
  ELSE IF n < 1 THEN RangeError
  ELSE calculateMovesReversed(n - 1, auxiliary, target, source)
       \o << [from |-> source, to |-> target] >>
       \o calculateMovesReversed(n - 1, source, auxiliary, target)

RECURSIVE calculateMoves(_, _, _, _)
calculateMoves(n, source, target, auxiliary) ==
  IF n = 1 THEN << [from |-> source, to |-> target] >>
  ELSE IF n < 1 THEN RangeError
  ELSE calculateMoves(n - 1, source, auxiliary, target)
       \o << [from |-> source, to |-> target] >>
       \o calculateMoves(n - 1, auxiliary, target, source)

(***************************************************************************)
(* Array.from({length: numDisks}, (_, i) => ({id: i, size: numDisks - i})) *)
(* element i of the array (0-based) is element i + 1 of the sequence; the  *)
(* last element is the top of the rod.                                     *)
(***************************************************************************)
initialStack(numDisks) ==
  [k \in 1..numDisks |-> [id |-> k - 1, size |-> numDisks - (k - 1)]]

\* Array.prototype.pop: the last element, undefined on an empty array
Undefined == [id |-> -1, size |-> -1]
popDisk(rod) == IF Len(rod) = 0 THEN Undefined ELSE rod[Len(rod)]
popRest(rod) == IF Len(rod) = 0 THEN rod ELSE SubSeq(rod, 1, Len(rod) - 1)

(***************************************************************************)
(* The state record of the handlers.                                       *)
(***************************************************************************)
State ==
  [disks |-> disks, rods |-> rods, moves |-> moves,
   currentMoveIndex |-> currentMoveIndex, isPlaying |-> isPlaying,
   speed |-> speed, totalMoves |-> totalMoves, intervalId |-> intervalId,
   startTime |-> startTime, timers |-> timers, nextTimerId |-> nextTimerId]

Becomes(s) ==
  /\ disks' = s.disks
  /\ rods' = s.rods
  /\ moves' = s.moves
  /\ currentMoveIndex' = s.currentMoveIndex
  /\ isPlaying' = s.isPlaying
  /\ speed' = s.speed
  /\ totalMoves' = s.totalMoves
  /\ intervalId' = s.intervalId
  /\ startTime' = s.startTime
  /\ timers' = s.timers
  /\ nextTimerId' = s.nextTimerId

\* window.clearInterval(id)
clearInterval(s, id) ==
  [s EXCEPT !.timers = {t \in s.timers : t.id # id}]

\* window.setInterval(callback, ms): registers a timer, returns its id
setInterval(s, ms) ==
  [s EXCEPT !.timers = s.timers \cup {[id |-> s.nextTimerId, ms |-> ms]},
            !.nextTimerId = s.nextTimerId + 1]

\* initializeGame without currentMoveIndex = 0
initializeGameKeepsIndex(s, numDisks) ==
  LET planned == calculateMoves(numDisks, 0, 2, 1) IN
  [s EXCEPT !.disks = numDisks,
            !.rods = [r \in RodIndices |->
                        IF r = 0 THEN initialStack(numDisks) ELSE << >>],
            !.moves = planned,
            !.totalMoves = Len(planned)]

\* disks and rods are assigned before calculateMoves is called: when the
\* call throws, the assignments after it (lines 30 to 32) do not happen
initializeGame(s, numDisks) ==
  LET planned == calculateMoves(numDisks, 0, 2, 1)
      built == [s EXCEPT !.disks = numDisks,
                         !.rods = [r \in RodIndices |->
                                     IF r = 0 THEN initialStack(numDisks)
                                     ELSE << >>]]
  IN IF planned = RangeError
     THEN built
     ELSE [built EXCEPT !.moves = planned,
                        !.totalMoves = Len(planned),
                        !.currentMoveIndex = 0]

\* executeMove with the disk put under the target rod (unshift for push)
executeMoveUnshift(s) ==
  IF s.currentMoveIndex >= Len(s.moves)
  THEN LET stopped == [s EXCEPT !.isPlaying = FALSE] IN
       IF Truthy(s.intervalId)
       THEN [clearInterval(stopped, s.intervalId) EXCEPT !.intervalId = Null]
       ELSE stopped
  ELSE LET move == s.moves[s.currentMoveIndex + 1]
           disk == popDisk(s.rods[move.from])
           popped == [s.rods EXCEPT ![move.from] = popRest(@)]
       IN [s EXCEPT !.rods = IF disk # Undefined
                              THEN [popped EXCEPT ![move.to] = <<disk>> \o @]
                              ELSE popped,
                    !.currentMoveIndex = s.currentMoveIndex + 1]

\* executeMove without currentMoveIndex++
executeMoveNoIncrement(s) ==
  IF s.currentMoveIndex >= Len(s.moves)
  THEN LET stopped == [s EXCEPT !.isPlaying = FALSE] IN
       IF Truthy(s.intervalId)
       THEN [clearInterval(stopped, s.intervalId) EXCEPT !.intervalId = Null]
       ELSE stopped
  ELSE LET move == s.moves[s.currentMoveIndex + 1]
           disk == popDisk(s.rods[move.from])
           popped == [s.rods EXCEPT ![move.from] = popRest(@)]
       IN [s EXCEPT !.rods = IF disk # Undefined
                              THEN [popped EXCEPT ![move.to] = Append(@, disk)]
                              ELSE popped]

executeMove(s) ==
  IF s.currentMoveIndex >= Len(s.moves)
  THEN LET stopped == [s EXCEPT !.isPlaying = FALSE] IN
       IF Truthy(s.intervalId)
       THEN [clearInterval(stopped, s.intervalId) EXCEPT !.intervalId = Null]
       ELSE stopped
  ELSE LET move == s.moves[s.currentMoveIndex + 1]
           disk == popDisk(s.rods[move.from])
           popped == [s.rods EXCEPT ![move.from] = popRest(@)]
       IN [s EXCEPT !.rods = IF disk # Undefined
                              THEN [popped EXCEPT ![move.to] = Append(@, disk)]
                              ELSE popped,
                    !.currentMoveIndex = s.currentMoveIndex + 1]

\* stopAnimation without clearInterval
stopAnimationNoClear(s) ==
  [s EXCEPT !.isPlaying = FALSE, !.intervalId = Null]

\* stopAnimation without intervalId = null
stopAnimationKeepsId(s) ==
  LET stopped == [s EXCEPT !.isPlaying = FALSE] IN
  IF Truthy(s.intervalId)
  THEN clearInterval(stopped, s.intervalId)
  ELSE stopped

stopAnimation(s) ==
  LET stopped == [s EXCEPT !.isPlaying = FALSE] IN
  IF Truthy(s.intervalId)
  THEN [clearInterval(stopped, s.intervalId) EXCEPT !.intervalId = Null]
  ELSE stopped

\* startAnimation without the !isPlaying condition
startAnimationNoPlayingCheck(s, now) ==
  IF Len(s.moves) > 0 /\ s.currentMoveIndex < Len(s.moves)
  THEN LET timed == [s EXCEPT !.isPlaying = TRUE,
                              !.startTime = IF ~Truthy(s.startTime)
                                            THEN now ELSE s.startTime]
       IN [setInterval(timed, s.speed) EXCEPT !.intervalId = s.nextTimerId]
  ELSE s

\* now: the value of Date.now()
startAnimation(s, now) ==
  IF Len(s.moves) > 0 /\ s.currentMoveIndex < Len(s.moves) /\ ~s.isPlaying
  THEN LET timed == [s EXCEPT !.isPlaying = TRUE,
                              !.startTime = IF ~Truthy(s.startTime)
                                            THEN now ELSE s.startTime]
       IN [setInterval(timed, s.speed) EXCEPT !.intervalId = s.nextTimerId]
  ELSE s

\* the callback without the check for the end of the moves
intervalCallbackNoStop(s) == executeMove(s)

\* the callback of the interval timer of startAnimation
intervalCallback(s) ==
  LET moved == executeMove(s) IN
  IF moved.currentMoveIndex >= Len(moved.moves)
  THEN stopAnimation(moved)
  ELSE moved

\* resetGame without startTime = null
resetGameKeepsStartTime(s) ==
  LET stopped == stopAnimation(s) IN
  initializeGame(stopped, stopped.disks)

resetGame(s) ==
  LET stopped == stopAnimation(s) IN
  initializeGame([stopped EXCEPT !.startTime = Null], stopped.disks)

\* stepForward without its condition
stepForwardNoGuard(s) == executeMove(s)

stepForward(s) ==
  IF s.currentMoveIndex < Len(s.moves) THEN executeMove(s) ELSE s

\* stepBackward that repeats the move (pops from `from`, pushes onto `to`)
stepBackwardRedo(s) ==
  IF s.currentMoveIndex > 0
  THEN LET index == s.currentMoveIndex - 1
           move == s.moves[index + 1]
           disk == popDisk(s.rods[move.from])
           popped == [s.rods EXCEPT ![move.from] = popRest(@)]
       IN [s EXCEPT !.currentMoveIndex = index,
                    !.rods = IF disk # Undefined
                              THEN [popped EXCEPT ![move.to] = Append(@, disk)]
                              ELSE popped]
  ELSE s

\* stepBackward without currentMoveIndex--
stepBackwardNoDecrement(s) ==
  IF s.currentMoveIndex > 0
  THEN LET move == s.moves[s.currentMoveIndex]
           disk == popDisk(s.rods[move.to])
           popped == [s.rods EXCEPT ![move.to] = popRest(@)]
       IN [s EXCEPT !.rods = IF disk # Undefined
                              THEN [popped EXCEPT ![move.from] = Append(@, disk)]
                              ELSE popped]
  ELSE s

stepBackward(s) ==
  IF s.currentMoveIndex > 0
  THEN LET index == s.currentMoveIndex - 1
           move == s.moves[index + 1]
           disk == popDisk(s.rods[move.to])
           popped == [s.rods EXCEPT ![move.to] = popRest(@)]
       IN [s EXCEPT !.currentMoveIndex = index,
                    !.rods = IF disk # Undefined
                              THEN [popped EXCEPT ![move.from] = Append(@, disk)]
                              ELSE popped]
  ELSE s

\* updateSpeed that only assigns speed
updateSpeedNoRestart(s, newSpeed, now) ==
  [s EXCEPT !.speed = newSpeed]

updateSpeed(s, newSpeed, now) ==
  LET set == [s EXCEPT !.speed = newSpeed] IN
  IF set.isPlaying
  THEN startAnimation(stopAnimation(set), now)
  ELSE set

updateDisks(s, newDisks) == initializeGame(s, newDisks)

\* onDestroy
onDestroy(s) ==
  IF Truthy(s.intervalId) THEN clearInterval(s, s.intervalId) ELSE s

(***************************************************************************)
(* The component: the state after the script block has run, and one action *)
(* per event handler.  A button that is disabled dispatches no click.      *)
(***************************************************************************)
Init ==
  /\ disks = InitialDisks
  /\ rods = [r \in RodIndices |-> << >>]
  /\ moves = << >>
  /\ currentMoveIndex = 0
  /\ isPlaying = FALSE
  /\ speed = InitialSpeed
  /\ totalMoves = 0
  /\ intervalId = Null
  /\ startTime = Null
  /\ timers = {}
  /\ nextTimerId = 1
  /\ sliderCommitted = InitialDisks
  /\ phase = "constructed"
  /\ lastOp = "construct"
  /\ planArgs = << >>

SliderValues == {n \in SliderMin..SliderMax : n <= MaxDisks}
Timestamps == 1..MaxTimestamp

\* onMount(() => initializeGame(disks))
Mount ==
  /\ phase = "constructed"
  /\ Becomes(initializeGame(State, disks))
  /\ phase' = "mounted"
  /\ lastOp' = "mount"
  /\ UNCHANGED <<sliderCommitted, planArgs>>

\* bind:value={disks}: an input event of the range input (the thumb is moved)
SliderInput(n) ==
  /\ phase = "mounted"
  /\ n # disks
  /\ Becomes([State EXCEPT !.disks = n])
  /\ lastOp' = "sliderInput"
  /\ UNCHANGED <<sliderCommitted, phase, planArgs>>

\* on:change={() => initializeGame(disks)}: the thumb is released
SliderChange ==
  /\ phase = "mounted"
  /\ disks # sliderCommitted
  /\ Becomes(initializeGame(State, disks))
  /\ sliderCommitted' = disks
  /\ lastOp' = "sliderChange"
  /\ UNCHANGED <<phase, planArgs>>

\* on:click={isPlaying ? stopAnimation : startAnimation}, isPlaying false
PlayClick(now) ==
  /\ phase = "mounted"
  /\ ~isPlaying
  /\ nextTimerId <= MaxTimerId
  /\ Becomes(startAnimation(State, now))
  /\ lastOp' = "play"
  /\ UNCHANGED <<sliderCommitted, phase, planArgs>>

\* on:click={isPlaying ? stopAnimation : startAnimation}, isPlaying true
PauseClick ==
  /\ phase = "mounted"
  /\ isPlaying
  /\ Becomes(stopAnimation(State))
  /\ lastOp' = "pause"
  /\ UNCHANGED <<sliderCommitted, phase, planArgs>>

\* the Step Back button, disabled={currentMoveIndex <= 0}
StepBackClick ==
  /\ phase = "mounted"
  /\ ~(currentMoveIndex <= 0)
  /\ Becomes(stepBackward(State))
  /\ lastOp' = "stepBackward"
  /\ UNCHANGED <<sliderCommitted, phase, planArgs>>

\* the Step Forward button, disabled={currentMoveIndex >= totalMoves}
StepForwardClick ==
  /\ phase = "mounted"
  /\ ~(currentMoveIndex >= totalMoves)
  /\ Becomes(stepForward(State))
  /\ lastOp' = "stepForward"
  /\ UNCHANGED <<sliderCommitted, phase, planArgs>>

\* the Reset button
ResetClick ==
  /\ phase = "mounted"
  /\ Becomes(resetGame(State))
  /\ lastOp' = "reset"
  /\ UNCHANGED <<sliderCommitted, phase, planArgs>>

\* handleSpeedChange: a change event of the select (another option is chosen)
SpeedChange(newSpeed, now) ==
  /\ phase = "mounted"
  /\ newSpeed # speed
  /\ isPlaying => nextTimerId <= MaxTimerId
  /\ Becomes(updateSpeed(State, newSpeed, now))
  /\ lastOp' = "setSpeed"
  /\ UNCHANGED <<sliderCommitted, phase, planArgs>>

\* a registered interval timer fires
Tick(t) ==
  /\ phase = "mounted"
  /\ t \in timers
  /\ Becomes(intervalCallback(State))
  /\ lastOp' = "tick"
  /\ UNCHANGED <<sliderCommitted, phase, planArgs>>

Destroy ==
  /\ phase = "mounted"
  /\ Becomes(onDestroy(State))
  /\ phase' = "destroyed"
  /\ lastOp' = "destroy"
  /\ UNCHANGED <<sliderCommitted, planArgs>>

Next ==
  \/ Mount
  \/ \E n \in SliderValues : SliderInput(n)
  \/ SliderChange
  \/ \E now \in Timestamps : PlayClick(now)
  \/ PauseClick
  \/ StepBackClick
  \/ StepForwardClick
  \/ ResetClick
  \/ \E newSpeed \in speedOptions, now \in Timestamps : SpeedChange(newSpeed, now)
  \/ \E t \in timers : Tick(t)
  \/ Destroy

Spec == Init /\ [][Next]_vars

(***************************************************************************)
(* The mounted component with the scheduling of its timer: a registered    *)
(* interval timer keeps firing (weak fairness of the tick).  The component *)
(* stays mounted.                                                          *)
(***************************************************************************)
TimerFires == \E t \in timers : Tick(t)

LiveNext ==
  \/ Mount
  \/ \E n \in SliderValues : SliderInput(n)
  \/ SliderChange
  \/ \E now \in Timestamps : PlayClick(now)
  \/ PauseClick
  \/ StepBackClick
  \/ StepForwardClick
  \/ ResetClick
  \/ \E newSpeed \in speedOptions, now \in Timestamps : SpeedChange(newSpeed, now)
  \/ TimerFires

LiveSpec == Init /\ [][LiveNext]_vars /\ WF_vars(TimerFires)

(***************************************************************************)
(* The planner on its own: calculateMoves(n, source, target, auxiliary)    *)
(* for every n in 0..MaxPlanN and every assignment of the three rods, the  *)
(* n disks stacked on the source rod, and the moves replayed one by one    *)
(* by executeMove.  A call that throws leaves moves as declared, [].       *)
(***************************************************************************)
PlanInit ==
  \E n \in 0..MaxPlanN, source \in RodIndices, target \in RodIndices,
     auxiliary \in RodIndices :
    /\ Cardinality({source, target, auxiliary}) = 3
    /\ planArgs = <<n, source, target, auxiliary>>
    /\ disks = n
    /\ rods = [r \in RodIndices |->
                IF r = source THEN initialStack(n) ELSE << >>]
    /\ LET planned == calculateMoves(n, source, target, auxiliary) IN
       IF planned = RangeError
       THEN moves = << >> /\ lastOp = "RangeError"
       ELSE moves = planned /\ lastOp = "calculateMoves"
    /\ totalMoves = Len(moves)
    /\ currentMoveIndex = 0
    /\ isPlaying = FALSE
    /\ speed = InitialSpeed
    /\ intervalId = Null
    /\ startTime = Null
    /\ timers = {}
    /\ nextTimerId = 1
    /\ sliderCommitted = InitialDisks
    /\ phase = "plan"

Replay ==
  /\ phase = "plan"
  /\ currentMoveIndex < Len(moves)
  /\ Becomes(executeMove(State))
  /\ lastOp' = "executeMove"
  /\ UNCHANGED <<sliderCommitted, phase, planArgs>>

PlanNext == Replay

PlanSpec == PlanInit /\ [][PlanNext]_vars

(***************************************************************************)
(* The functions of the component called directly, whatever the buttons    *)
(* and the slider allow: updateDisks with any disk count, the steps at     *)
(* either end of the moves, startAnimation and stopAnimation in any state. *)
(* lastOp tells a step invoked at its boundary from one that moves a disk. *)
(***************************************************************************)
ApiDiskCounts == -1..MaxDisks

ApiUpdateDisks(n) ==
  /\ phase = "mounted"
  /\ Becomes(updateDisks(State, n))
  /\ lastOp' = IF calculateMoves(n, 0, 2, 1) = RangeError
               THEN "RangeError" ELSE "updateDisks"
  /\ UNCHANGED <<sliderCommitted, phase, planArgs>>

ApiStepForward ==
  /\ phase = "mounted"
  /\ Becomes(stepForward(State))
  /\ lastOp' = IF currentMoveIndex >= Len(moves)
               THEN "stepForward at the end" ELSE "stepForward"
  /\ UNCHANGED <<sliderCommitted, phase, planArgs>>

ApiStepBackward ==
  /\ phase = "mounted"
  /\ Becomes(stepBackward(State))
  /\ lastOp' = IF currentMoveIndex <= 0
               THEN "stepBackward at the start" ELSE "stepBackward"
  /\ UNCHANGED <<sliderCommitted, phase, planArgs>>

ApiStartAnimation(now) ==
  /\ phase = "mounted"
  /\ nextTimerId <= MaxTimerId
  /\ Becomes(startAnimation(State, now))
  /\ lastOp' = "play"
  /\ UNCHANGED <<sliderCommitted, phase, planArgs>>

ApiStopAnimation ==
  /\ phase = "mounted"
  /\ Becomes(stopAnimation(State))
  /\ lastOp' = "pause"
  /\ UNCHANGED <<sliderCommitted, phase, planArgs>>

ApiNext ==
  \/ Mount
  \/ \E n \in ApiDiskCounts : ApiUpdateDisks(n)
  \/ ApiStepForward
  \/ ApiStepBackward
  \/ \E now \in Timestamps : ApiStartAnimation(now)
  \/ ApiStopAnimation
  \/ \E t \in timers : Tick(t)

ApiSpec == Init /\ [][ApiNext]_vars

(***************************************************************************)
(* Configurations the claims speak of.                                     *)
(***************************************************************************)
\* n disks on one rod, size n at the bottom and size 1 on top
fullStack(n) == [k \in 1..n |-> [id |-> k - 1, size |-> n + 1 - k]]
startRods(n) == [r \in RodIndices |-> IF r = 0 THEN fullStack(n) ELSE << >>]
solvedRods(n) == [r \in RodIndices |-> IF r = 2 THEN fullStack(n) ELSE << >>]

initOps == {"mount", "sliderChange", "reset"}

RECURSIVE stepForwardTimes(_, _)
stepForwardTimes(s, k) ==
  IF k = 0 THEN s ELSE stepForwardTimes(stepForward(s), k - 1)

RECURSIVE stepBackwardTimes(_, _)
stepBackwardTimes(s, k) ==
  IF k = 0 THEN s ELSE stepBackwardTimes(stepBackward(s), k - 1)

(***************************************************************************)
(* C1 (PlanSpec).  Replaying calculateMoves(n, 0, 2, 1) from n disks on    *)
(* rod 0, for n in 1..MaxPlanN: the rod a move pops from is never empty,   *)
(* and after the last move rod 2 holds the n disks in the original order   *)
(* and rods 0 and 1 are empty.                                             *)
(***************************************************************************)
C1_ReplaySolves ==
  (planArgs # << >> /\ SubSeq(planArgs, 2, 4) = <<0, 2, 1>>) =>
    /\ currentMoveIndex < Len(moves) =>
         Len(rods[moves[currentMoveIndex + 1].from]) > 0
    /\ currentMoveIndex = Len(moves) => rods = solvedRods(planArgs[1])

C1_Witness ==
  /\ planArgs = <<InitialDisks, 0, 2, 1>>
  /\ lastOp = "executeMove"
  /\ currentMoveIndex = Len(moves)
  /\ Len(rods[2]) = InitialDisks

(***************************************************************************)
(* C2 (PlanSpec).  calculateMoves(n, source, target, auxiliary) has        *)
(* exactly 2^n - 1 moves, for n in 1..MaxPlanN and any three rods.         *)
(***************************************************************************)
C2_MoveCount ==
  planArgs # << >> => Len(moves) = 2 ^ planArgs[1] - 1

C2_Witness ==
  /\ planArgs = <<MaxPlanN, 1, 0, 2>>
  /\ Len(moves) = 2 ^ MaxPlanN - 1

(***************************************************************************)
(* C3.  On every rod the sizes are strictly increasing from the top to     *)
(* the bottom, in every reachable state of the component.                  *)
(***************************************************************************)
C3_RodsOrdered ==
  \A r \in RodIndices :
    \A k \in 1..(Len(rods[r]) - 1) : rods[r][k].size > rods[r][k + 1].size

C3_Witness ==
  /\ phase = "mounted"
  /\ lastOp = "stepBackward"
  /\ isPlaying
  /\ Len(rods[1]) >= 2
  /\ Len(rods[2]) >= 1

(***************************************************************************)
(* C4.  In every reachable state with currentMoveIndex < moves.length,     *)
(* stepBackward applied to the result of stepForward gives back the rods   *)
(* and currentMoveIndex of the state.                                      *)
(***************************************************************************)
C4_ForwardThenBackward ==
  (phase = "mounted" /\ currentMoveIndex < Len(moves)) =>
    LET back == stepBackward(stepForward(State)) IN
    /\ back.rods = rods
    /\ back.currentMoveIndex = currentMoveIndex

C4_Witness ==
  /\ phase = "mounted"
  /\ lastOp = "stepBackward"
  /\ currentMoveIndex > 0
  /\ currentMoveIndex < Len(moves)
  /\ stepForward(State).currentMoveIndex = currentMoveIndex + 1
  /\ stepForward(State).rods # rods

(***************************************************************************)
(* C5.  Right after initializeGame(n): moves.length times stepForward      *)
(* gives currentMoveIndex = moves.length and all n disks on rod 2, largest *)
(* at the bottom; as many times stepBackward after that gives              *)
(* currentMoveIndex = 0 and the rods of the start.  And in the reachable   *)
(* states of the component: at currentMoveIndex = moves.length the rods    *)
(* are the solved ones.                                                    *)
(***************************************************************************)
C5_ForwardAllBackwardAll ==
  /\ (phase = "mounted" /\ lastOp \in initOps) =>
       LET forward == stepForwardTimes(State, Len(moves))
           backward == stepBackwardTimes(forward, Len(moves))
       IN /\ forward.currentMoveIndex = Len(moves)
          /\ forward.rods = solvedRods(disks)
          /\ backward.currentMoveIndex = 0
          /\ backward.rods = startRods(disks)
          /\ backward.rods = rods
  /\ (phase = "mounted" /\ currentMoveIndex = Len(moves)) =>
       /\ rods[0] = << >> /\ rods[1] = << >>
       /\ rods[2] = fullStack(Len(rods[2]))

C5_Witness ==
  /\ phase = "mounted"
  /\ lastOp = "stepForward"
  /\ currentMoveIndex = Len(moves)
  /\ rods = solvedRods(MaxDisks)

(***************************************************************************)
(* C6.  A change of the disk count while isPlaying is true stops the       *)
(* playback: afterwards isPlaying is false and no interval timer is        *)
(* registered (so that no tick changes the new rods).                      *)
(***************************************************************************)
C6_DiskCountChangeStopsPlayback ==
  [][(isPlaying /\ lastOp' = "sliderChange") =>
       (~isPlaying' /\ timers' = {} /\ intervalId' = Null)]_vars

(***************************************************************************)
(* C7.  initializeGame(n) leaves the n disks on rod 0 (size n at the       *)
(* bottom, size 1 on top), rods 1 and 2 empty, moves =                     *)
(* calculateMoves(n, 0, 2, 1), totalMoves = moves.length and               *)
(* currentMoveIndex = 0, from whatever state it is invoked in.             *)
(***************************************************************************)
C7_InitializeResets ==
  (phase = "mounted" /\ lastOp \in initOps) =>
    /\ rods = startRods(disks)
    /\ moves = calculateMoves(disks, 0, 2, 1)
    /\ totalMoves = Len(moves)
    /\ currentMoveIndex = 0

C7_Witness ==
  /\ phase = "mounted"
  /\ lastOp = "sliderChange"
  /\ isPlaying
  /\ disks = MaxDisks
  /\ Len(rods[0]) = MaxDisks

(***************************************************************************)
(* C8.  initializeGame(n), from whatever state it is invoked in, leaves    *)
(* startTime null.                                                         *)
(***************************************************************************)
C8_InitializeClearsStartTime ==
  (phase = "mounted" /\ lastOp \in initOps) => startTime = Null

(***************************************************************************)
(* C9.  A tick at currentMoveIndex < moves.length applies exactly the move *)
(* moves[currentMoveIndex]; the tick that brings currentMoveIndex to       *)
(* moves.length also sets isPlaying to false and removes the timer, and    *)
(* any other tick leaves the playback running on the same timer.           *)
(***************************************************************************)
C9_TickAppliesOneMove ==
  [][(lastOp' = "tick" /\ currentMoveIndex < Len(moves)) =>
       LET move == moves[currentMoveIndex + 1] IN
       /\ currentMoveIndex' = currentMoveIndex + 1
       /\ moves' = moves
       /\ Len(rods[move.from]) > 0
       /\ rods'[move.from] = SubSeq(rods[move.from], 1, Len(rods[move.from]) - 1)
       /\ rods'[move.to] = rods[move.to] \o <<rods[move.from][Len(rods[move.from])]>>
       /\ \A r \in RodIndices \ {move.from, move.to} : rods'[r] = rods[r]
       /\ (currentMoveIndex' = Len(moves)) =>
            (~isPlaying' /\ timers' = {} /\ intervalId' = Null)
       /\ (currentMoveIndex' < Len(moves)) =>
            (isPlaying' /\ timers' = timers /\ intervalId' = intervalId)]_vars

C9_Witness ==
  /\ phase = "mounted"
  /\ lastOp = "tick"
  /\ Len(moves) = 7
  /\ currentMoveIndex = 7
  /\ ~isPlaying
  /\ timers = {}

(***************************************************************************)
(* C10.  pause() and reset() leave isPlaying false and no interval timer   *)
(* registered, and while isPlaying is false only play() registers one: no  *)
(* tick changes rods or currentMoveIndex of a stopped playback.            *)
(***************************************************************************)
C10_StoppedMeansNoTimer ==
  [][/\ lastOp' \in {"pause", "reset"} =>
          (~isPlaying' /\ timers' = {} /\ intervalId' = Null)
     /\ (~isPlaying /\ lastOp' # "play") => (~isPlaying' /\ timers' = {})
     /\ (~isPlaying /\ lastOp' = "tick") =>
          (rods' = rods /\ currentMoveIndex' = currentMoveIndex)]_vars

C10_Witness ==
  /\ phase = "mounted"
  /\ lastOp = "pause"
  /\ ~isPlaying
  /\ timers = {}
  /\ nextTimerId > 1
  /\ currentMoveIndex > 0
  /\ currentMoveIndex < Len(moves)

(***************************************************************************)
(* C11.  updateSpeed leaves rods, moves, currentMoveIndex, disks and       *)
(* startTime as they are; invoked while isPlaying is true and              *)
(* currentMoveIndex < moves.length, it leaves isPlaying true and exactly   *)
(* one interval timer registered, the one intervalId names, with the new   *)
(* speed as its interval.                                                  *)
(***************************************************************************)
C11_SetSpeedKeepsSession ==
  [][lastOp' = "setSpeed" =>
       /\ rods' = rods /\ moves' = moves
       /\ currentMoveIndex' = currentMoveIndex
       /\ disks' = disks /\ startTime' = startTime
       /\ speed' # speed
       /\ (isPlaying /\ currentMoveIndex < Len(moves)) =>
            /\ isPlaying'
            /\ timers' = {[id |-> intervalId', ms |-> speed']}
            /\ intervalId' # intervalId]_vars

C11_Witness ==
  /\ phase = "mounted"
  /\ lastOp = "setSpeed"
  /\ isPlaying
  /\ currentMoveIndex > 0
  /\ currentMoveIndex < Len(moves)
  /\ speed = 200
  /\ timers = {[id |-> intervalId, ms |-> 200]}

(***************************************************************************)
(* C12.  resetGame leaves isPlaying false, no interval timer registered,   *)
(* startTime null, currentMoveIndex 0, the rods and moves of the start     *)
(* for the current disk count, and speed as it was: the state that         *)
(* stopAnimation and then initializeGame(disks) give, with startTime null. *)
(***************************************************************************)
C12_ResetIsPauseThenInitialize ==
  [][lastOp' = "reset" =>
       /\ ~isPlaying' /\ timers' = {} /\ intervalId' = Null
       /\ startTime' = Null
       /\ currentMoveIndex' = 0
       /\ disks' = disks
       /\ rods' = startRods(disks)
       /\ moves' = calculateMoves(disks, 0, 2, 1)
       /\ totalMoves' = Len(moves')
       /\ speed' = speed
       /\ State' = [initializeGame(stopAnimation(State), disks)
                      EXCEPT !.startTime = Null]]_vars

C12_Witness ==
  /\ phase = "mounted"
  /\ lastOp = "reset"
  /\ startTime = Null
  /\ nextTimerId > 1
  /\ speed # InitialSpeed
  /\ disks = MaxDisks
  /\ disks # sliderCommitted
  /\ rods = startRods(MaxDisks)

(***************************************************************************)
(* C13.  startAnimation changes nothing when isPlaying is true, when       *)
(* currentMoveIndex >= moves.length or when moves is empty: in every       *)
(* reachable state of that kind its result is the state itself, and a      *)
(* click on Play at the end of the moves leaves every variable (the        *)
(* registered timers and the next timer id among them) as it was.          *)
(***************************************************************************)
C13_PlayIsNoOp ==
  [][/\ (isPlaying \/ currentMoveIndex >= Len(moves) \/ Len(moves) = 0) =>
          \A now \in Timestamps : startAnimation(State, now) = State
     /\ (lastOp' = "play" /\
         (currentMoveIndex >= Len(moves) \/ Len(moves) = 0)) =>
          State' = State]_vars

C13_Witness ==
  /\ phase = "mounted"
  /\ lastOp = "play"
  /\ ~isPlaying
  /\ timers = {}
  /\ Len(moves) > 0
  /\ currentMoveIndex = Len(moves)

(***************************************************************************)
(* C14.  In every reachable state with currentMoveIndex = moves.length,    *)
(* isPlaying is false.                                                     *)
(***************************************************************************)
C14_StoppedAtTheEnd ==
  (phase = "mounted" /\ currentMoveIndex = Len(moves)) => ~isPlaying

(***************************************************************************)
(* C19.  While the component is mounted, isPlaying is true exactly when    *)
(* intervalId is not null, and the registered interval timers are the one  *)
(* intervalId names when it is not null and none otherwise.                *)
(***************************************************************************)
C19_PlayingIffTimer ==
  phase = "mounted" =>
    /\ isPlaying <=> intervalId # Null
    /\ Cardinality(timers) <= 1
    /\ timers = {t \in timers : t.id = intervalId}
    /\ isPlaying <=> timers # {}

C19_Witness ==
  /\ phase = "mounted"
  /\ lastOp = "sliderChange"
  /\ isPlaying
  /\ intervalId > 1
  /\ Cardinality(timers) = 1

(***************************************************************************)
(* C20.  After mount: 0 <= currentMoveIndex <= moves.length, moves =       *)
(* calculateMoves(disks, 0, 2, 1), totalMoves = moves.length, and the rods *)
(* are the start configuration of `disks` disks with the first             *)
(* currentMoveIndex moves applied.                                         *)
(***************************************************************************)
C20_StateDeterminedByDisksAndIndex ==
  phase = "mounted" =>
    /\ 0 <= currentMoveIndex /\ currentMoveIndex <= Len(moves)
    /\ moves = calculateMoves(disks, 0, 2, 1)
    /\ totalMoves = Len(moves)
    /\ rods = stepForwardTimes(initializeGame(State, disks),
                               currentMoveIndex).rods

(***************************************************************************)
(* C15 (PlanSpec).  calculateMoves(0, source, target, auxiliary)           *)
(* terminates and returns the empty sequence.                              *)
(***************************************************************************)
C15_PlannerTotalAtZero ==
  (planArgs # << >> /\ planArgs[1] = 0) =>
    (lastOp = "calculateMoves" /\ moves = << >>)

(***************************************************************************)
(* C16 (ApiSpec).  initializeGame rejects a disk count below 1 or above    *)
(* the largest supported one instead of building rods and moves for it:    *)
(* no call leaves such a count in disks.                                   *)
(***************************************************************************)
C16_InitializeValidates ==
  (phase = "mounted" /\ lastOp \in {"updateDisks", "RangeError"}) =>
    (disks >= 1 /\ disks <= SliderMax)

(***************************************************************************)
(* C17 (PlanSpec).  For n >= 2 the moves of calculateMoves(n, s, t, a) are *)
(* those of (n - 1, s, a, t), then the move (s, t), then those of          *)
(* (n - 1, a, t, s); for n = 1 the single move (s, t); and                 *)
(* calculateMoves(3, 0, 2, 1) is (0,2),(0,1),(2,1),(0,2),(1,0),(1,2),(0,2).*)
(* Stated of the value calculateMoves returned, before the replay.         *)
(***************************************************************************)
C17_PlanOrder ==
  (planArgs # << >> /\ planArgs[1] >= 1 /\ lastOp = "calculateMoves") =>
    LET n == planArgs[1]
        s == planArgs[2]
        t == planArgs[3]
        a == planArgs[4]
        half == 2 ^ (n - 1) - 1
        mv(f, g) == [from |-> f, to |-> g]
    IN /\ n = 1 => moves = << mv(s, t) >>
       /\ n >= 2 =>
            /\ SubSeq(moves, 1, half) = calculateMoves(n - 1, s, a, t)
            /\ moves[half + 1] = mv(s, t)
            /\ SubSeq(moves, half + 2, Len(moves)) =
                 calculateMoves(n - 1, a, t, s)
       /\ planArgs = <<3, 0, 2, 1>> =>
            moves = << mv(0, 2), mv(0, 1), mv(2, 1), mv(0, 2),
                       mv(1, 0), mv(1, 2), mv(0, 2) >>

C17_Witness ==
  /\ planArgs = <<3, 0, 2, 1>>
  /\ lastOp = "calculateMoves"
  /\ Len(moves) = 7
  /\ moves[3] = [from |-> 2, to |-> 1]
  /\ moves[5] = [from |-> 1, to |-> 0]

(***************************************************************************)
(* C18 (ApiSpec).  stepForward at currentMoveIndex >= moves.length and     *)
(* stepBackward at currentMoveIndex <= 0 change nothing: rods,             *)
(* currentMoveIndex, isPlaying, the registered timer, startTime and the    *)
(* rest of the state are as before, also while playback is running.       *)
(***************************************************************************)
C18_StepAtBoundaryIsNoOp ==
  [][/\ lastOp' \in {"stepForward at the end", "stepBackward at the start"} =>
          State' = State
     /\ currentMoveIndex >= Len(moves) => stepForward(State) = State
     /\ currentMoveIndex <= 0 => stepBackward(State) = State]_vars

C18_Witness ==
  /\ phase = "mounted"
  /\ lastOp = "stepForward at the end"
  /\ isPlaying
  /\ timers # {}
  /\ Len(moves) > 0
  /\ currentMoveIndex = Len(moves)

(***************************************************************************)
(* C21 (LiveSpec).  Playback always ends: when the timer's ticks are       *)
(* weakly fair and from some point on no step other than a tick is taken   *)
(* (only finitely many user operations), every state with isPlaying true   *)
(* is followed by a state with isPlaying false and no interval timer       *)
(* registered.                                                             *)
(***************************************************************************)
C21_PlaybackEnds ==
  (<>[][lastOp' = "tick"]_vars) =>
    (isPlaying ~> (~isPlaying /\ timers = {} /\ intervalId = Null))

C21_Witness ==
  /\ phase = "mounted"
  /\ lastOp = "tick"
  /\ ~isPlaying
  /\ timers = {}
  /\ currentMoveIndex = Len(moves)
  /\ disks = MaxDisks
  /\ nextTimerId > 2
  /\ speed # InitialSpeed

====
